---- MODULE Spec2Model ----
(***************************************************************************)
(* A model of flask_cassandra.CassandraCluster: one manager object, the    *)
(* Flask application it is bound to (configuration, teardown callbacks,    *)
(* application-context stack) and the objects the Cassandra driver hands   *)
(* out (Cluster, Session, PreparedStatement).  The driver is modelled the  *)
(* way the repository's tests mock it: every constructor call returns a    *)
(* new object with a new identity and never fails.                         *)
(***************************************************************************)
EXTENDS Integers, Sequences, FiniteSets, TLC

VARIABLES
    app,                        \* self.app: None or the bound application
    cluster,                    \* self.cluster: 0 (None) or a Cluster identity
    session,                    \* self.__session: keyspace -> Session identity
    sessions,                   \* self.__sessions: the attribute init_app assigns (set: it exists)
    queries,                    \* self.__queries: keyspace -> (query name -> statement identity)
    nodes, port, user, password, keyspace, default_consistency_level,
    clusterObjs,                \* driver: the Cluster objects constructed so far
    sessionObjs,                \* driver: the Session objects constructed so far
    stmtObjs,                   \* driver: the PreparedStatement objects constructed so far
    ctxStack,                   \* flask: the application-context stack (top is the last element)
    ctxSlot,                    \* flask: context -> its cassandra_cluster attribute (0 = no attribute)
    teardownFuncs,              \* flask: how many times self.teardown is registered with the app
    bindCount,                  \* how many times init_app has run
    last,                       \* the last call: its arguments, result and driver calls
    threads                     \* thread -> where it is inside connect, and its locals

vars == <<app, cluster, session, sessions, queries,
          nodes, port, user, password, keyspace, default_consistency_level,
          clusterObjs, sessionObjs, stmtObjs,
          ctxStack, ctxSlot, teardownFuncs, bindCount, last, threads>>

(***************************************************************************)
(* Bounds of the model.                                                    *)
(***************************************************************************)
MaxBinds == 2
MaxStmts == 2
MaxShutdowns == 2
MaxContexts == 2

(***************************************************************************)
(* Python values.                                                          *)
(***************************************************************************)
None == "None"
Unset == "Unset"
EmptyStr == ""
DefaultPort == 9042
DriverLevel == "driver-default"

\* bool(v) for a string-or-None value
Truthy(v) == v # None /\ v # EmptyStr

\* the expression `a or b`
Or(a, b) == IF Truthy(a) THEN a ELSE b

EmptyDict == [x \in {} |-> 0]

Put(d, k, v) == (k :> v) @@ d

(***************************************************************************)
(* Inputs.                                                                 *)
(***************************************************************************)
Keyspaces == {"ks1", "ks2"}
KeyspaceArgs == {None, EmptyStr} \cup Keyspaces
QueryKeyspaceArgs == {None, "ks1"}
QueryNames == {"q", "ks1"}
QueryTexts == {"t1", "t2"}
Levels == {None, "QUORUM"}
ParamLists == {"[1]"}
Contexts == 1..MaxContexts
Exceptions == {None, "exc"}

\* app.config before init_app: every key is absent or set by the host
\* CASSANDRA_NODES: absent, one string (str), or a list of strings (list)
ConfigNodes ==
    { [set |-> FALSE, isStr |-> FALSE, str |-> EmptyStr, list |-> <<>>],
      [set |-> TRUE, isStr |-> TRUE, str |-> "h1", list |-> <<>>],
      [set |-> TRUE, isStr |-> FALSE, str |-> EmptyStr, list |-> <<"h1", "h2">>] }
ConfigPorts == { [set |-> FALSE, val |-> 0], [set |-> TRUE, val |-> 1234] }
ConfigStr(v) == { [set |-> FALSE, val |-> None], [set |-> TRUE, val |-> v] }
AllConfigs ==
    [ NODES : ConfigNodes, PORT : ConfigPorts,
      USER : ConfigStr("u"), PASSWORD : ConfigStr("p"),
      KEYSPACE : ConfigStr("ks1"), CONSISTENCY_LEVEL : ConfigStr("ONE") ]

\* the empty configuration (every default applies) and the full one
DefaultConfig == CHOOSE c \in AllConfigs :
    /\ ~c.NODES.set /\ ~c.PORT.set /\ ~c.USER.set /\ ~c.PASSWORD.set
    /\ ~c.KEYSPACE.set /\ ~c.CONSISTENCY_LEVEL.set
FullConfig == CHOOSE c \in AllConfigs :
    /\ c.NODES.isStr /\ c.PORT.set /\ c.USER.set /\ c.PASSWORD.set
    /\ c.KEYSPACE.set /\ c.CONSISTENCY_LEVEL.set

\* with and without a default keyspace
KeyspaceConfigs == {DefaultConfig, FullConfig}

\* every way of giving the nodes and the credentials
ClusterConfigs ==
    { c \in AllConfigs :
        /\ c.PORT.set = c.NODES.isStr
        /\ c.KEYSPACE.set = c.USER.set
        /\ c.CONSISTENCY_LEVEL.set = c.PASSWORD.set }

\* dict.setdefault(key, default) followed by a read of the key
SetDefault(entry, default) == IF entry.set THEN entry.val ELSE default

\* init_app without the isinstance test: only a list is taken as given
NormalizeNodes_ListOnly(entry) ==
    IF ~entry.set THEN <<"localhost">> ELSE entry.list

\* CASSANDRA_NODES after the setdefault and the string-to-list conversion
NormalizeNodes(entry) ==
    IF ~entry.set THEN <<"localhost">>
    ELSE IF entry.isStr THEN <<entry.str>>
    ELSE entry.list

NoLast ==
    [ op |-> "init", name |-> None, ks |-> None, text |-> None, force |-> FALSE,
      params |-> None, ret |-> 0, err |-> None, errArg |-> None,
      newCluster |-> 0, newSession |-> 0, prepared |-> 0,
      execSession |-> 0, execStmt |-> 0, execDict |-> Unset, execParams |-> None,
      hadCluster |-> 0, hadSession |-> 0, hadStmt |-> 0, shut |-> 0, ctx |-> 0,
      level |-> None, cfg |-> DefaultConfig ]

(***************************************************************************)
(* CassandraCluster.__init__(app=None)                                     *)
(***************************************************************************)
InitManager ==
    /\ app = None
    /\ cluster = 0
    /\ session = EmptyDict
    /\ sessions = [set |-> FALSE, val |-> EmptyDict]
    /\ queries = EmptyDict
    /\ nodes = <<>>
    /\ port = DefaultPort
    /\ user = None
    /\ password = None
    /\ keyspace = None
    /\ default_consistency_level = None

\* the threads that may be inside connect at the same time
Threads == {"A", "B"}

\* a thread that is not inside connect: pc is the line it is about to run,
\* ks, level the locals `keyspace`, `level`, newCluster and newSession the
\* objects the driver gave this thread, ret what connect returned to it
IdleThread ==
    [ pc |-> "idle", ks |-> None, level |-> None,
      newCluster |-> 0, newSession |-> 0, ret |-> 0, err |-> None ]

\* nothing constructed by the driver, nothing registered with the host
InitWorld ==
    /\ clusterObjs = <<>>
    /\ sessionObjs = <<>>
    /\ stmtObjs = <<>>
    /\ ctxSlot = [c \in Contexts |-> 0]
    /\ teardownFuncs = 0
    /\ bindCount = 0
    /\ last = NoLast
    /\ threads = [t \in Threads |-> IdleThread]

\* a manager constructed outside any application context
Init == InitManager /\ InitWorld /\ ctxStack = <<>>

\* a manager constructed inside an application context
InitAll == InitManager /\ InitWorld /\ ctxStack = <<1>>

(***************************************************************************)
(* The part of the state a call chain reads and writes, as one record, so  *)
(* that a method that calls another method is a composition of functions.  *)
(* newCluster, newSession, prepared, exec* log the driver calls of the     *)
(* current call.                                                           *)
(***************************************************************************)
NoAuth == [user |-> None, password |-> None]

State ==
    [ cluster |-> cluster, session |-> session, queries |-> queries,
      clusterObjs |-> clusterObjs, sessionObjs |-> sessionObjs, stmtObjs |-> stmtObjs,
      newCluster |-> 0, newSession |-> 0, prepared |-> 0,
      execSession |-> 0, execStmt |-> 0, execDict |-> Unset, execParams |-> None ]

Return(S, v) == [st |-> S, ret |-> v, err |-> None, errArg |-> None]
Raise(S, e, a) == [st |-> S, ret |-> 0, err |-> e, errArg |-> a]

\* Cluster(...) with the credentials test written `or`
ConstructCluster_AuthOnEither(S) ==
    LET obj == [ nodes |-> nodes, port |-> port,
                 auth |-> IF Truthy(user) \/ Truthy(password)
                          THEN [user |-> user, password |-> password]
                          ELSE NoAuth,
                 shutdowns |-> 0, epoch |-> bindCount ]
        id == Len(S.clusterObjs) + 1
    IN  [S EXCEPT !.clusterObjs = Append(@, obj), !.cluster = id, !.newCluster = id]

\* Cluster(self.nodes, self.port), then the auth_provider assignment
ConstructCluster(S) ==
    LET obj == [ nodes |-> nodes, port |-> port,
                 auth |-> IF Truthy(user) /\ Truthy(password)
                          THEN [user |-> user, password |-> password]
                          ELSE NoAuth,
                 shutdowns |-> 0, epoch |-> bindCount ]
        id == Len(S.clusterObjs) + 1
    IN  [S EXCEPT !.clusterObjs = Append(@, obj), !.cluster = id, !.newCluster = id]

\* self.cluster.connect(keyspace=keyspace), then the consistency level
ConstructSession(S, ks, level) ==
    LET obj == [ keyspace |-> ks, cluster |-> S.cluster,
                 level |-> IF Truthy(level) THEN level ELSE DriverLevel,
                 epoch |-> bindCount ]
        id == Len(S.sessionObjs) + 1
    IN  [S EXCEPT !.sessionObjs = Append(@, obj),
                  !.session = Put(@, ks, id), !.newSession = id]

\* connect without the `keyspace not in self.__session` test
connect_NoSessionCache(S, ksArg, level) ==
    LET ks == Or(ksArg, keyspace)
        S1 == IF S.cluster = 0 THEN ConstructCluster(S) ELSE S
    IN  IF ~Truthy(ks) THEN Return(S1, 0)
        ELSE IF app = None THEN Raise(S1, "AttributeError", "logger")
        ELSE LET S2 == ConstructSession(S1, ks, level)
             IN  Return(S2, S2.session[ks])

\* connect with the `if not keyspace: return None` moved to the top
connect_ReturnBeforeCluster(S, ksArg, level) ==
    LET ks == Or(ksArg, keyspace)
    IN  IF ~Truthy(ks) THEN Return(S, 0)
        ELSE LET S1 == IF S.cluster = 0 THEN ConstructCluster(S) ELSE S
             IN  IF ks \notin DOMAIN S1.session
                 THEN IF app = None
                      THEN Raise(S1, "AttributeError", "logger")
                      ELSE LET S2 == ConstructSession(S1, ks, level)
                           IN  Return(S2, S2.session[ks])
                 ELSE Return(S1, S1.session[ks])

\* connect without the `self.cluster is None` test
connect_AlwaysNewCluster(S, ksArg, level) ==
    LET ks == Or(ksArg, keyspace)
        S1 == ConstructCluster(S)
    IN  IF ~Truthy(ks) THEN Return(S1, 0)
        ELSE IF ks \notin DOMAIN S1.session
        THEN IF app = None
             THEN Raise(S1, "AttributeError", "logger")
             ELSE LET S2 == ConstructSession(S1, ks, level)
                  IN  Return(S2, S2.session[ks])
        ELSE Return(S1, S1.session[ks])

\* connect that applies `level` outside the `not in self.__session` block
connect_LevelOnHit(S, ksArg, level) ==
    LET ks == Or(ksArg, keyspace)
        S1 == IF S.cluster = 0 THEN ConstructCluster(S) ELSE S
    IN  IF ~Truthy(ks) THEN Return(S1, 0)
        ELSE IF ks \notin DOMAIN S1.session
        THEN IF app = None
             THEN Raise(S1, "AttributeError", "logger")
             ELSE LET S2 == ConstructSession(S1, ks, level)
                  IN  Return(S2, S2.session[ks])
        ELSE Return(IF Truthy(level)
                    THEN [S1 EXCEPT !.sessionObjs[S1.session[ks]].level = level]
                    ELSE S1,
                    S1.session[ks])

\* CassandraCluster.connect(keyspace=None, level=None)
connect(S, ksArg, level) ==
    LET ks == Or(ksArg, keyspace)
        S1 == IF S.cluster = 0 THEN ConstructCluster(S) ELSE S
    IN  IF ~Truthy(ks) THEN Return(S1, 0)
        ELSE IF ks \notin DOMAIN S1.session
        THEN IF app = None
             THEN Raise(S1, "AttributeError", "logger")
             ELSE LET S2 == ConstructSession(S1, ks, level)
                  IN  Return(S2, S2.session[ks])
        ELSE Return(S1, S1.session[ks])

\* `if keyspace not in self.__queries: self.__queries[keyspace] = {}`
EnsureQueries(S, ks) ==
    IF ks \in DOMAIN S.queries THEN S
    ELSE [S EXCEPT !.queries = Put(@, ks, EmptyDict)]

\* session.prepare(query)
ConstructStatement(S, ks, name, text, sess) ==
    LET obj == [text |-> text, session |-> sess]
        id == Len(S.stmtObjs) + 1
    IN  [S EXCEPT !.stmtObjs = Append(@, obj),
                  !.queries = Put(@, ks, Put(S.queries[ks], name, id)),
                  !.prepared = id]

\* prepare_query with `force` dropped from the test
prepare_query_IgnoreForce(S, name, text, ksArg, force) ==
    LET ks == Or(ksArg, keyspace)
        c == connect(S, ks, None)
    IN  IF c.err # None THEN c
        ELSE LET S1 == EnsureQueries(c.st, ks)
             IN  IF name \notin DOMAIN S1.queries[ks]
                 THEN IF c.ret = 0
                      THEN Raise(S1, "AttributeError", "prepare")
                      ELSE LET S2 == ConstructStatement(S1, ks, name, text, c.ret)
                           IN  Return(S2, S2.queries[ks][name])
                 ELSE Return(S1, S1.queries[ks][name])

\* CassandraCluster.prepare_query(query_name, query, keyspace=None, force=False)
prepare_query(S, name, text, ksArg, force) ==
    LET ks == Or(ksArg, keyspace)
        c == connect(S, ks, None)
    IN  IF c.err # None THEN c
        ELSE LET S1 == EnsureQueries(c.st, ks)
             IN  IF force \/ name \notin DOMAIN S1.queries[ks]
                 THEN IF c.ret = 0
                      THEN Raise(S1, "AttributeError", "prepare")
                      ELSE LET S2 == ConstructStatement(S1, ks, name, text, c.ret)
                           IN  Return(S2, S2.queries[ks][name])
                 ELSE Return(S1, S1.queries[ks][name])

\* session.execute(self.__queries[query_name], params): the argument is
\* whatever the outer dict holds under the QUERY NAME
Execute(S, sess, name, params) ==
    IF sess = 0 THEN Raise(S, "AttributeError", "execute")
    ELSE IF name \notin DOMAIN S.queries THEN Raise(S, "KeyError", name)
    ELSE Return([S EXCEPT !.execSession = sess, !.execDict = name,
                          !.execParams = params], 1)

\* execute_prepared without the `query is None` test
execute_prepared_NoCheck(S, name, ksArg, text, params) ==
    LET ks == Or(ksArg, keyspace)
        c == connect(S, ks, None)
    IN  IF c.err # None THEN c
        ELSE LET S1 == EnsureQueries(c.st, ks)
             IN  IF name \notin DOMAIN S1.queries[ks]
                 THEN LET p == prepare_query(S1, name, text, ks, FALSE)
                      IN  IF p.err # None THEN p
                          ELSE Execute(p.st, c.ret, name, params)
                 ELSE Execute(S1, c.ret, name, params)

\* CassandraCluster.execute_prepared(query_name, keyspace=None, query=None, params=[])
execute_prepared(S, name, ksArg, text, params) ==
    LET ks == Or(ksArg, keyspace)
        c == connect(S, ks, None)
    IN  IF c.err # None THEN c
        ELSE LET S1 == EnsureQueries(c.st, ks)
             IN  IF name \notin DOMAIN S1.queries[ks]
                 THEN IF text = None
                      THEN Raise(S1, "ValueError", name)
                      ELSE LET p == prepare_query(S1, name, text, ks, FALSE)
                           IN  IF p.err # None THEN p
                               ELSE Execute(p.st, c.ret, name, params)
                 ELSE Execute(S1, c.ret, name, params)

(***************************************************************************)
(* The host application: context stack and teardown callbacks.             *)
(***************************************************************************)
\* stack.top: 0 stands for None (no context is active)
Top == IF ctxStack = <<>> THEN 0 ELSE ctxStack[Len(ctxStack)]

\* hasattr(ctx, 'cassandra_cluster')
HasAttr(slots, ctx) == ctx # 0 /\ slots[ctx] # 0

\* the driver's Cluster.shutdown() on the object with identity id
Shutdown(objs, id) == [objs EXCEPT ![id].shutdowns = @ + 1]

\* init_app shutting down the manager's own handle, not the context's
ShutdownOld_OwnCluster(objs, slots, ctx) ==
    IF cluster # 0 THEN Shutdown(objs, cluster) ELSE objs

\* init_app, l.89-92: with stack.top = ctx, shut down its cassandra_cluster
ShutdownOld(objs, slots, ctx) ==
    IF HasAttr(slots, ctx) THEN Shutdown(objs, slots[ctx]) ELSE objs

\* teardown that looks at the exception: nothing to do after a clean request
teardown_OnlyOnError(objs, slots, ctx, exception) ==
    IF HasAttr(slots, ctx) /\ exception # None THEN Shutdown(objs, slots[ctx]) ELSE objs

\* CassandraCluster.teardown(exception), with stack.top = ctx
teardown(objs, slots, ctx, exception) ==
    IF HasAttr(slots, ctx) THEN Shutdown(objs, slots[ctx]) ELSE objs

\* every registered teardown callback in turn, n of them
RECURSIVE RunTeardowns(_, _, _, _, _)
RunTeardowns(objs, slots, ctx, exception, n) ==
    IF n = 0 THEN objs
    ELSE RunTeardowns(teardown(objs, slots, ctx, exception), slots, ctx, exception, n - 1)

(***************************************************************************)
(* What `last` records of a call: the arguments, the result, the driver    *)
(* calls made, and what the caches held for the arguments before it.       *)
(***************************************************************************)
CachedSession(ks) == IF ks \in DOMAIN session THEN session[ks] ELSE 0

CachedStmt(ks, name) ==
    IF ks \in DOMAIN queries /\ name \in DOMAIN queries[ks] THEN queries[ks][name] ELSE 0

Call(op, r, ksArg, name, text, force, params) ==
    [ op |-> op, name |-> name, ks |-> Or(ksArg, keyspace), text |-> text,
      force |-> force, params |-> params,
      ret |-> r.ret, err |-> r.err, errArg |-> r.errArg,
      newCluster |-> r.st.newCluster, newSession |-> r.st.newSession,
      prepared |-> r.st.prepared,
      execSession |-> r.st.execSession, execStmt |-> r.st.execStmt,
      execDict |-> r.st.execDict, execParams |-> r.st.execParams,
      hadCluster |-> cluster,
      hadSession |-> CachedSession(Or(ksArg, keyspace)),
      hadStmt |-> CachedStmt(Or(ksArg, keyspace), name),
      shut |-> 0, ctx |-> 0, level |-> None, cfg |-> DefaultConfig ]

\* the manager and the driver after a call chain that ended in result r
Commit(r) ==
    /\ Len(r.st.stmtObjs) <= MaxStmts
    /\ cluster' = r.st.cluster
    /\ session' = r.st.session
    /\ queries' = r.st.queries
    /\ clusterObjs' = r.st.clusterObjs
    /\ sessionObjs' = r.st.sessionObjs
    /\ stmtObjs' = r.st.stmtObjs

config == <<nodes, port, user, password, keyspace, default_consistency_level>>
host == <<ctxStack, ctxSlot, teardownFuncs>>

(***************************************************************************)
(* Operations.                                                             *)
(***************************************************************************)
\* CassandraCluster.init_app(app), the application's config being cfg
init_app(cfg) ==
    /\ bindCount < MaxBinds
    /\ app' = "app"
    /\ nodes' = NormalizeNodes(cfg.NODES)
    /\ port' = SetDefault(cfg.PORT, DefaultPort)
    /\ user' = SetDefault(cfg.USER, None)
    /\ password' = SetDefault(cfg.PASSWORD, None)
    /\ keyspace' = SetDefault(cfg.KEYSPACE, None)
    /\ default_consistency_level' = SetDefault(cfg.CONSISTENCY_LEVEL, None)
    /\ sessions' = [set |-> TRUE, val |-> EmptyDict]
    /\ queries' = EmptyDict
    /\ cluster' = 0
    /\ LET objs == ShutdownOld(clusterObjs, ctxSlot, Top)
       IN  /\ \A i \in 1..Len(objs) : objs[i].shutdowns <= MaxShutdowns
           /\ clusterObjs' = objs
    /\ teardownFuncs' = teardownFuncs + 1
    /\ bindCount' = bindCount + 1
    /\ last' = [NoLast EXCEPT !.op = "init_app", !.hadCluster = cluster, !.ctx = Top,
                              !.cfg = cfg,
                              !.shut = IF HasAttr(ctxSlot, Top) THEN ctxSlot[Top] ELSE 0]
    /\ UNCHANGED <<session, sessionObjs, stmtObjs, ctxStack, ctxSlot, threads>>

\* CassandraCluster.connect(keyspace, level)
Connect(ksArg, level) ==
    LET r == connect(State, ksArg, level)
    IN  /\ Commit(r)
        /\ last' = [Call("connect", r, ksArg, None, None, FALSE, None) EXCEPT !.level = level]
        /\ UNCHANGED <<app, sessions, config, host, bindCount, threads>>

\* session that reflects self.__primary_session and never connects
Session_PrimaryOnly ==
    LET r == Return(State, 0)
    IN  /\ Commit(r)
        /\ last' = Call("session", r, keyspace, None, None, FALSE, None)
        /\ UNCHANGED <<app, sessions, config, host, bindCount, threads>>

\* the property CassandraCluster.session
Session ==
    LET r == connect(State, keyspace, None)
    IN  /\ Commit(r)
        /\ last' = Call("session", r, keyspace, None, None, FALSE, None)
        /\ UNCHANGED <<app, sessions, config, host, bindCount, threads>>

\* CassandraCluster.get_session(keyspace)
GetSession(ksArg) ==
    LET r == connect(State, ksArg, None)
    IN  /\ Commit(r)
        /\ last' = Call("get_session", r, ksArg, None, None, FALSE, None)
        /\ UNCHANGED <<app, sessions, config, host, bindCount, threads>>

\* CassandraCluster.prepare_query(query_name, query, keyspace, force)
PrepareQuery(name, text, ksArg, force) ==
    LET r == prepare_query(State, name, text, ksArg, force)
    IN  /\ Commit(r)
        /\ last' = Call("prepare_query", r, ksArg, name, text, force, None)
        /\ UNCHANGED <<app, sessions, config, host, bindCount, threads>>

\* CassandraCluster.execute_prepared(query_name, keyspace, query, params)
ExecutePrepared(name, ksArg, text, params) ==
    LET r == execute_prepared(State, name, ksArg, text, params)
    IN  /\ Commit(r)
        /\ last' = Call("execute_prepared", r, ksArg, name, text, FALSE, params)
        /\ UNCHANGED <<app, sessions, config, host, bindCount, threads>>

\* connection without the hasattr test: the slot follows self.cluster
Connection_AlwaysRefresh ==
    LET ctx == Top
        r == IF ctx # 0 THEN connect(State, None, None) ELSE Return(State, 0)
        slots == IF ctx # 0 /\ r.err = None
                 THEN [ctxSlot EXCEPT ![ctx] = r.st.cluster]
                 ELSE ctxSlot
    IN  /\ Commit(r)
        /\ ctxSlot' = slots
        /\ last' = [Call("connection", r, None, None, None, FALSE, None)
                       EXCEPT !.ret = IF r.err = None /\ ctx # 0 THEN slots[ctx] ELSE 0,
                              !.ctx = ctx]
        /\ UNCHANGED <<app, sessions, config, ctxStack, teardownFuncs, bindCount, threads>>

\* the property CassandraCluster.connection
Connection ==
    LET ctx == Top
        fresh == ctx # 0 /\ ~HasAttr(ctxSlot, ctx)
        r == IF fresh THEN connect(State, None, None) ELSE Return(State, 0)
        slots == IF fresh /\ r.err = None
                 THEN [ctxSlot EXCEPT ![ctx] = r.st.cluster]
                 ELSE ctxSlot
    IN  /\ Commit(r)
        /\ ctxSlot' = slots
        /\ last' = [Call("connection", r, None, None, None, FALSE, None)
                       EXCEPT !.ret = IF r.err = None /\ ctx # 0 THEN slots[ctx] ELSE 0,
                              !.ctx = ctx]
        /\ UNCHANGED <<app, sessions, config, ctxStack, teardownFuncs, bindCount, threads>>

\* the host pushes a new application context (a new object, with no attribute)
ContextPush ==
    /\ Len(ctxStack) < MaxContexts
    /\ ctxStack' = Append(ctxStack, Len(ctxStack) + 1)
    /\ last' = [NoLast EXCEPT !.op = "push", !.ctx = Len(ctxStack) + 1,
                              !.hadCluster = cluster]
    /\ UNCHANGED <<app, cluster, session, sessions, queries, config,
                   clusterObjs, sessionObjs, stmtObjs, ctxSlot, teardownFuncs, bindCount, threads>>

\* the top context ends: the host runs every registered teardown callback
\* with that context still on top, then pops and discards it
ContextEnd(exception) ==
    /\ ctxStack # <<>>
    /\ LET objs == RunTeardowns(clusterObjs, ctxSlot, Top, exception, teardownFuncs)
       IN  /\ \A i \in 1..Len(objs) : objs[i].shutdowns <= MaxShutdowns
           /\ clusterObjs' = objs
    /\ ctxStack' = SubSeq(ctxStack, 1, Len(ctxStack) - 1)
    /\ ctxSlot' = [ctxSlot EXCEPT ![Top] = 0]
    /\ last' = [NoLast EXCEPT !.op = "teardown", !.ctx = Top,
                              !.hadCluster = cluster,
                              !.shut = IF HasAttr(ctxSlot, Top) /\ teardownFuncs > 0
                                       THEN ctxSlot[Top] ELSE 0]
    /\ UNCHANGED <<app, cluster, session, sessions, queries, config,
                   sessionObjs, stmtObjs, teardownFuncs, bindCount, threads>>

(***************************************************************************)
(* connect run by several threads of the host at once.  The manager takes  *)
(* no lock, so a thread can be preempted between any two reads or writes   *)
(* of self.cluster and self.__session; each action below is one such read  *)
(* or write, named after the line of connect it runs.                      *)
(***************************************************************************)
At(t, pc) == threads[t].pc = pc

Goto(t, pc) == threads' = [threads EXCEPT ![t].pc = pc]

manager == <<app, cluster, session, sessions, queries, config>>
driver == <<clusterObjs, sessionObjs, stmtObjs>>

\* l.184-185: the call, and `keyspace = keyspace or self.keyspace`
ThreadCall(t, ksArg, level) ==
    /\ threads[t].pc \in {"idle", "done"}
    /\ threads' = [threads EXCEPT ![t] = [IdleThread EXCEPT !.pc = "l189",
                                             !.ks = Or(ksArg, keyspace), !.level = level]]
    /\ UNCHANGED <<manager, driver, host, bindCount, last>>

\* l.189: `if self.cluster is None`
ThreadCheckCluster(t) ==
    /\ At(t, "l189")
    /\ Goto(t, IF cluster = 0 THEN "l190" ELSE "l200")
    /\ UNCHANGED <<manager, driver, host, bindCount, last>>

\* l.190-192, right-hand side: Cluster(self.nodes, self.port)
ThreadNewCluster(t) ==
    /\ At(t, "l190")
    /\ clusterObjs' = Append(clusterObjs,
           [ nodes |-> nodes, port |-> port, auth |-> NoAuth,
             shutdowns |-> 0, epoch |-> bindCount ])
    /\ threads' = [threads EXCEPT ![t].pc = "l190s", ![t].newCluster = Len(clusterObjs) + 1]
    /\ UNCHANGED <<manager, sessionObjs, stmtObjs, host, bindCount, last>>

\* l.190: the assignment to self.cluster
ThreadStoreCluster(t) ==
    /\ At(t, "l190s")
    /\ cluster' = threads[t].newCluster
    /\ Goto(t, "l196")
    /\ UNCHANGED <<app, session, sessions, queries, config, driver, host, bindCount, last>>

\* l.196-198: the auth provider, set on whatever self.cluster is by now
ThreadAuth(t) ==
    /\ At(t, "l196")
    /\ clusterObjs' = IF Truthy(user) /\ Truthy(password)
                      THEN [clusterObjs EXCEPT ![cluster].auth =
                                [user |-> user, password |-> password]]
                      ELSE clusterObjs
    /\ Goto(t, "l200")
    /\ UNCHANGED <<manager, sessionObjs, stmtObjs, host, bindCount, last>>

\* l.200-201: `if not keyspace: return None`
ThreadCheckKeyspace(t) ==
    /\ At(t, "l200")
    /\ Goto(t, IF ~Truthy(threads[t].ks) THEN "done" ELSE "l204")
    /\ UNCHANGED <<manager, driver, host, bindCount, last>>

\* l.204: `if keyspace not in self.__session`
ThreadCheckSession(t) ==
    /\ At(t, "l204")
    /\ Goto(t, IF threads[t].ks \in DOMAIN session THEN "l214" ELSE "l205")
    /\ UNCHANGED <<manager, driver, host, bindCount, last>>

\* l.205-209, right-hand side: the debug line (self.app is None on an
\* unbound manager), then self.cluster.connect(keyspace=keyspace)
ThreadDriverConnect(t) ==
    /\ At(t, "l205")
    /\ IF app = None
       THEN /\ threads' = [threads EXCEPT ![t].pc = "done", ![t].err = "AttributeError"]
            /\ UNCHANGED sessionObjs
       ELSE /\ sessionObjs' = Append(sessionObjs,
                   [ keyspace |-> threads[t].ks, cluster |-> cluster,
                     level |-> DriverLevel, epoch |-> bindCount ])
            /\ threads' = [threads EXCEPT ![t].pc = "l209",
                                          ![t].newSession = Len(sessionObjs) + 1]
    /\ UNCHANGED <<manager, clusterObjs, stmtObjs, host, bindCount, last>>

\* l.209 written as `self.__session.setdefault(keyspace, ...)`
ThreadStoreSession_IfAbsent(t) ==
    /\ At(t, "l209")
    /\ session' = IF threads[t].ks \in DOMAIN session THEN session
                  ELSE Put(session, threads[t].ks, threads[t].newSession)
    /\ Goto(t, "l211")
    /\ UNCHANGED <<app, cluster, sessions, queries, config, driver, host, bindCount, last>>

\* l.209: the assignment to self.__session[keyspace]
ThreadStoreSession(t) ==
    /\ At(t, "l209")
    /\ session' = Put(session, threads[t].ks, threads[t].newSession)
    /\ Goto(t, "l211")
    /\ UNCHANGED <<app, cluster, sessions, queries, config, driver, host, bindCount, last>>

\* l.211-212: the level, set on whatever self.__session[keyspace] is by now
ThreadSetLevel(t) ==
    /\ At(t, "l211")
    /\ sessionObjs' = IF Truthy(threads[t].level)
                      THEN [sessionObjs EXCEPT ![session[threads[t].ks]].level = threads[t].level]
                      ELSE sessionObjs
    /\ Goto(t, "l214")
    /\ UNCHANGED <<manager, clusterObjs, stmtObjs, host, bindCount, last>>

\* l.214: `return self.__session[keyspace]`
ThreadReturn(t) ==
    /\ At(t, "l214")
    /\ threads' = [threads EXCEPT ![t].pc = "done", ![t].ret = session[threads[t].ks]]
    /\ UNCHANGED <<manager, driver, host, bindCount, last>>


(***************************************************************************)
(* Specifications.  Spec: the manager's sessions and cluster handle in the *)
(* application's contexts.  SpecQuery: the prepared-statement cache.       *)
(* SpecConfig: what the configuration makes of the cluster handle.         *)
(***************************************************************************)
Next ==
    \/ \E cfg \in KeyspaceConfigs : init_app(cfg)
    \/ \E k \in KeyspaceArgs : Connect(k, None)

Spec == Init /\ [][Next]_vars

NextContext ==
    \/ init_app(DefaultConfig)
    \/ \E k \in {None, "ks2"} : Connect(k, None)
    \/ Connection
    \/ ContextPush
    \/ \E e \in Exceptions : ContextEnd(e)

SpecContext == Init /\ [][NextContext]_vars

NextQuery ==
    \/ init_app(DefaultConfig)
    \/ \E n \in QueryNames, t \in QueryTexts, k \in QueryKeyspaceArgs, f \in BOOLEAN :
          PrepareQuery(n, t, k, f)
    \/ \E n \in QueryNames, k \in QueryKeyspaceArgs, t \in {None, "t1"},
          p \in ParamLists : ExecutePrepared(n, k, t, p)

SpecQuery == Init /\ [][NextQuery]_vars

NextConfig ==
    \/ \E cfg \in ClusterConfigs : init_app(cfg)
    \/ \E k \in {None, "ks2"} : Connect(k, None)
    \/ Session

SpecConfig == Init /\ [][NextConfig]_vars

\* the three ways of asking for a Session
NextAccessor ==
    \/ \E cfg \in KeyspaceConfigs : init_app(cfg)
    \/ Session
    \/ \E k \in KeyspaceArgs : GetSession(k)
    \/ \E k \in KeyspaceArgs : Connect(k, None)

SpecAccessor == Init /\ [][NextAccessor]_vars

\* every operation of the manager, inside one application context
NextAll ==
    \/ \E cfg \in KeyspaceConfigs : init_app(cfg)
    \/ Connect("ks2", None)
    \/ Session
    \/ GetSession("ks2")
    \/ PrepareQuery("q", "t1", None, FALSE)
    \/ ExecutePrepared("q", None, None, "[]")
    \/ Connection

SpecAll == InitAll /\ [][NextAll]_vars

\* connect with and without a consistency level
ConnectLevels == Levels \cup {"ONE"}

NextLevel ==
    \/ init_app(DefaultConfig)
    \/ \E k \in Keyspaces, l \in ConnectLevels : Connect(k, l)

SpecLevel == Init /\ [][NextLevel]_vars

\* CassandraCluster(app), the application's config being empty: __init__
\* runs init_app (l.55-56)
InitRace ==
    /\ app = "app"
    /\ cluster = 0
    /\ session = EmptyDict
    /\ sessions = [set |-> TRUE, val |-> EmptyDict]
    /\ queries = EmptyDict
    /\ nodes = NormalizeNodes(DefaultConfig.NODES)
    /\ port = SetDefault(DefaultConfig.PORT, DefaultPort)
    /\ user = SetDefault(DefaultConfig.USER, None)
    /\ password = SetDefault(DefaultConfig.PASSWORD, None)
    /\ keyspace = SetDefault(DefaultConfig.KEYSPACE, None)
    /\ default_consistency_level = SetDefault(DefaultConfig.CONSISTENCY_LEVEL, None)
    /\ clusterObjs = <<>>
    /\ sessionObjs = <<>>
    /\ stmtObjs = <<>>
    /\ ctxStack = <<>>
    /\ ctxSlot = [c \in Contexts |-> 0]
    /\ teardownFuncs = 1
    /\ bindCount = 1
    /\ last = [NoLast EXCEPT !.op = "init_app"]
    /\ threads = [t \in Threads |-> IdleThread]

\* two threads calling connect on the bound manager
NextRace ==
    \E t \in Threads :
          \/ \E k \in {None, "ks1"}, l \in Levels : ThreadCall(t, k, l)
          \/ ThreadCheckCluster(t)
          \/ ThreadNewCluster(t)
          \/ ThreadStoreCluster(t)
          \/ ThreadAuth(t)
          \/ ThreadCheckKeyspace(t)
          \/ ThreadCheckSession(t)
          \/ ThreadDriverConnect(t)
          \/ ThreadStoreSession(t)
          \/ ThreadSetLevel(t)
          \/ ThreadReturn(t)

SpecRace == InitRace /\ [][NextRace]_vars

TypeOK ==
    /\ cluster \in 0..Len(clusterObjs)
    /\ Len(clusterObjs) <= MaxBinds + 1
    /\ Len(stmtObjs) <= MaxStmts
    /\ bindCount \in 0..MaxBinds

(***************************************************************************)
(* Properties.                                                             *)
(***************************************************************************)
StmtIn(q, ks, name) ==
    IF ks \in DOMAIN q /\ name \in DOMAIN q[ks] THEN q[ks][name] ELSE 0

QueryKeys == {None} \cup Keyspaces

\* C1: on a bound manager, as long as there is no re-bind, a keyspace's cached
\* Session never changes; connect(k) returns the cached Session of k, without
\* asking the driver for one when k was cached already; and the Session it
\* returns is the Session of no other keyspace.
C1_SameSessionPerKeyspace ==
    [][ /\ bindCount' = bindCount =>
              \A k \in DOMAIN session : k \in DOMAIN session' /\ session'[k] = session[k]
        /\ (last'.op = "connect" /\ app # None /\ Truthy(last'.ks)) =>
              /\ last'.err = None
              /\ last'.ks \in DOMAIN session'
              /\ last'.ret = session'[last'.ks]
              /\ last'.ks \in DOMAIN session =>
                    /\ last'.ret = session[last'.ks]
                    /\ last'.newSession = 0
                    /\ sessionObjs' = sessionObjs
              /\ \A k2 \in DOMAIN session' \ {last'.ks} : session'[k2] # last'.ret
      ]_vars

\* C1 witness: a connect that found its keyspace cached and returned that
\* Session, while another keyspace has a Session of its own
C1_Witness ==
    /\ last.op = "connect" /\ app # None
    /\ last.hadSession # 0 /\ last.ret = last.hadSession
    /\ Cardinality(DOMAIN session) = 2

\* C2: after init_app the manager holds no cached Session, no prepared
\* statement and no cluster handle, and a Session that connect returns was
\* constructed after the last init_app, from the manager's current handle.
C2_RebindDiscardsSessions ==
    /\ last.op = "init_app" => session = EmptyDict /\ queries = EmptyDict /\ cluster = 0
    /\ (last.op = "connect" /\ last.ret # 0) =>
          /\ sessionObjs[last.ret].epoch = bindCount
          /\ sessionObjs[last.ret].cluster = cluster

\* C3 as stated: in every state, execute_prepared of a name that is not
\* cached for the effective keyspace, without query text, raises ValueError
\* carrying the name; nothing is compiled, executed or cached.
C3_ValueErrorInEveryState ==
    (last.op = "execute_prepared" /\ last.hadStmt = 0 /\ last.text = None) =>
        /\ last.err = "ValueError" /\ last.errArg = last.name
        /\ last.prepared = 0
        /\ last.execSession = 0
        /\ StmtIn(queries, last.ks, last.name) = 0

\* C3 amended: the same on a bound manager (init_app has run), for every
\* effective keyspace, none included.
C3_ValueErrorWhenBound ==
    (last.op = "execute_prepared" /\ last.hadStmt = 0 /\ last.text = None /\ app # None) =>
        /\ last.err = "ValueError" /\ last.errArg = last.name
        /\ last.prepared = 0
        /\ last.execSession = 0
        /\ StmtIn(queries, last.ks, last.name) = 0

\* C3 witnesses: the error with a keyspace, and with no effective keyspace
C3_Witness ==
    /\ last.op = "execute_prepared" /\ app # None
    /\ last.hadStmt = 0 /\ last.text = None
    /\ last.err = "ValueError" /\ last.errArg = "q"
    /\ ~Truthy(last.ks)
    /\ Len(stmtObjs) > 0

\* C4: on a bound manager, execute_prepared of a name that is not cached for
\* the keyspace, with query text, compiles the text, caches the statement
\* under (keyspace, name), executes it and returns without an error.
C4_ExecuteCompilesAndRuns ==
    (last.op = "execute_prepared" /\ app # None /\ Truthy(last.ks)
        /\ last.hadStmt = 0 /\ last.text # None) =>
        /\ last.err = None
        /\ last.prepared # 0
        /\ StmtIn(queries, last.ks, last.name) = last.prepared
        /\ stmtObjs[last.prepared].text = last.text
        /\ last.execStmt = last.prepared

\* C5: execute_prepared of a name cached for the keyspace executes exactly
\* the cached statement, on the Session of that keyspace, with the params
\* given, compiles nothing, and returns without an error.
C5_ExecuteUsesCachedStatement ==
    (last.op = "execute_prepared" /\ last.hadStmt # 0) =>
        /\ last.err = None
        /\ last.prepared = 0
        /\ last.execStmt = last.hadStmt
        /\ last.execSession = session[last.ks]
        /\ last.execParams = last.params

\* C6: as long as there is no re-bind, a cache entry changes only in a call
\* for its own (keyspace, name) that compiled, and a call compiles only if
\* the entry was absent or force was given; prepare_query without force on a
\* cached entry returns it and compiles nothing, whatever the text; with
\* force it compiles the text given, stores and returns the new statement.
C6_CompiledOncePerName ==
    [][ bindCount' = bindCount =>
        /\ \A k \in QueryKeys, n \in QueryNames :
              StmtIn(queries', k, n) # StmtIn(queries, k, n) =>
                  /\ k = last'.ks /\ n = last'.name
                  /\ last'.prepared # 0
                  /\ StmtIn(queries', k, n) = last'.prepared
                  /\ last'.force \/ StmtIn(queries, k, n) = 0
        /\ last'.op = "prepare_query" =>
              /\ last'.prepared # 0 =>
                    /\ last'.force \/ StmtIn(queries, last'.ks, last'.name) = 0
                    /\ Len(stmtObjs') = Len(stmtObjs) + 1
                    /\ last'.prepared = Len(stmtObjs')
                    /\ stmtObjs'[last'.prepared].text = last'.text
                    /\ last'.ret = last'.prepared
              /\ (~last'.force /\ StmtIn(queries, last'.ks, last'.name) # 0) =>
                    /\ last'.err = None
                    /\ last'.ret = StmtIn(queries, last'.ks, last'.name)
                    /\ last'.prepared = 0
                    /\ stmtObjs' = stmtObjs
              /\ (last'.force /\ StmtIn(queries, last'.ks, last'.name) # 0) =>
                    /\ last'.err = None
                    /\ last'.prepared # 0
                    /\ last'.ret # StmtIn(queries, last'.ks, last'.name)
      ]_vars

\* C6 witness: a prepare_query without force that returned the cached
\* statement although its text differs, another name being cached as well
C6_Witness ==
    /\ last.op = "prepare_query" /\ ~last.force
    /\ last.hadStmt # 0 /\ last.ret = last.hadStmt
    /\ stmtObjs[last.ret].text # last.text
    /\ \E n \in QueryNames \ {last.name} : StmtIn(queries, last.ks, n) # 0

\* C7: connect with no effective keyspace returns None without an error,
\* leaves the Session cache and the driver's Sessions alone, and leaves the
\* manager with a cluster handle: the one it had, or a newly constructed one.
C7_NoKeyspaceNoSession ==
    [][ (last'.op = "connect" /\ ~Truthy(last'.ks)) =>
          /\ last'.ret = 0 /\ last'.err = None
          /\ session' = session /\ sessionObjs' = sessionObjs
          /\ cluster' # 0
          /\ cluster # 0 => cluster' = cluster /\ clusterObjs' = clusterObjs
          /\ cluster = 0 => /\ Len(clusterObjs') = Len(clusterObjs) + 1
                            /\ cluster' = Len(clusterObjs')
      ]_vars

\* C7 witness: such a connect on a bound manager, which constructed the handle
C7_Witness ==
    /\ last.op = "connect" /\ ~Truthy(last.ks) /\ app # None
    /\ last.ret = 0 /\ last.err = None
    /\ last.hadCluster = 0 /\ last.newCluster = cluster /\ cluster # 0

\* C8: a cluster handle is constructed from exactly the bound node list and
\* port, and carries an auth provider, built from the bound user and
\* password, if and only if both are set.
C8_ClusterArguments ==
    last.newCluster # 0 =>
        LET c == clusterObjs[last.newCluster]
        IN  /\ c.nodes = nodes
            /\ c.port = port
            /\ (c.auth # NoAuth) <=> (user # None /\ password # None)
            /\ c.auth # NoAuth => c.auth = [user |-> user, password |-> password]

\* C8 witnesses: a handle constructed with only the user set
C8_Witness ==
    /\ last.newCluster # 0
    /\ user # None /\ password = None
    /\ clusterObjs[last.newCluster].auth = NoAuth
    /\ \E i \in 1..Len(clusterObjs) : clusterObjs[i].auth # NoAuth

\* C9: no two cluster handles are constructed between two consecutive
\* init_app calls (nor before the first); a call constructs one only when the
\* manager holds none; and the handle the manager holds was constructed
\* after the last init_app.
C9_OneClusterPerBind ==
    /\ \A i, j \in 1..Len(clusterObjs) :
          i # j => clusterObjs[i].epoch # clusterObjs[j].epoch
    /\ last.newCluster # 0 => last.hadCluster = 0 /\ cluster = last.newCluster
    /\ cluster # 0 => clusterObjs[cluster].epoch = bindCount

\* C9 witness: after a re-bind and a second handle, a statement call that
\* found the handle in place
C9_Witness ==
    /\ Len(clusterObjs) = 2 /\ bindCount = 2
    /\ last.op = "execute_prepared"
    /\ last.hadCluster = cluster /\ cluster = 2
    /\ Len(sessionObjs) = 2

\* C10: a context end that shuts the manager's cluster handle down makes the
\* manager drop that handle and its Sessions, so that no connect returns,
\* from its cache, a Session whose handle has been shut down.  The Sessions
\* looked at are those created since the last init_app: only a context end
\* can have shut their handle down.
C10_NoSessionOfShutCluster ==
    (last.op = "connect" /\ last.ret # 0 /\ last.ret = last.hadSession
        /\ sessionObjs[last.ret].epoch = bindCount) =>
        clusterObjs[sessionObjs[last.ret].cluster].shutdowns = 0

\* C11: a context end runs teardown once per registered callback; each run
\* invokes shutdown on the context's cluster reference if the context has
\* one and does nothing otherwise, whatever the exception passed; the
\* manager's own fields are not touched.
C11_TeardownShutsContextHandle ==
    [][ last'.op = "teardown" =>
          /\ clusterObjs' =
                IF HasAttr(ctxSlot, Top)
                THEN [clusterObjs EXCEPT ![ctxSlot[Top]].shutdowns = @ + teardownFuncs]
                ELSE clusterObjs
          /\ UNCHANGED <<cluster, session, queries, sessionObjs, stmtObjs>>
      ]_vars

\* C11 witness: a context end, with one callback registered, that shut the
\* context's handle down
C11_Witness ==
    /\ last.op = "teardown" /\ last.shut # 0
    /\ teardownFuncs = 1
    /\ clusterObjs[last.shut].shutdowns = 1

\* C12: connection with no active context returns None and sets nothing; the
\* first connection in a context leaves the manager with a cluster handle
\* (the one it had, if any), stores it in the context's slot and returns it;
\* a later one returns the slot as it is; no call writes the slot of another
\* context, and a live context's slot, once set, keeps its value.
C12_ConnectionSlotPerContext ==
    [][ /\ last'.op = "connection" =>
              /\ Top = 0 => last'.ret = 0 /\ ctxSlot' = ctxSlot /\ cluster' = cluster
              /\ (Top # 0 /\ ctxSlot[Top] # 0) =>
                    /\ last'.ret = ctxSlot[Top]
                    /\ ctxSlot' = ctxSlot
                    /\ clusterObjs' = clusterObjs /\ cluster' = cluster
              /\ (Top # 0 /\ ctxSlot[Top] = 0) =>
                    /\ cluster' # 0
                    /\ cluster # 0 => cluster' = cluster
                    /\ ctxSlot' = [ctxSlot EXCEPT ![Top] = cluster']
                    /\ last'.ret = cluster'
        /\ \A i \in 1..Len(ctxStack) :
              (i <= Len(ctxStack') /\ ctxSlot[ctxStack[i]] # 0) =>
                  ctxSlot'[ctxStack[i]] = ctxSlot[ctxStack[i]]
      ]_vars

\* C12 witness: two live contexts whose slots hold different handles, the
\* inner one just returned by connection
C12_Witness ==
    /\ last.op = "connection" /\ Len(ctxStack) = 2
    /\ ctxSlot[1] # 0 /\ ctxSlot[2] # 0 /\ ctxSlot[1] # ctxSlot[2]
    /\ last.ret = ctxSlot[2]

\* C13: a Session that a call without a level argument creates while a
\* default consistency level is configured has that level.
C13_DefaultLevelApplied ==
    (last.newSession # 0 /\ default_consistency_level # None) =>
        sessionObjs[last.newSession].level = default_consistency_level

\* C14: the session property returns None when no default keyspace is bound,
\* and otherwise the cached Session of the default keyspace, creating it only
\* if none is cached; connect and get_session for the default keyspace
\* return that same cached Session.
C14_SessionIsConnectDefault ==
    /\ last.op = "session" =>
          /\ last.ks = keyspace /\ last.err = None
          /\ keyspace = None => last.ret = 0 /\ last.newSession = 0
          /\ keyspace # None =>
                /\ last.ret # 0 /\ last.ret = session[keyspace]
                /\ sessionObjs[last.ret].keyspace = keyspace
                /\ last.hadSession # 0 => last.ret = last.hadSession /\ last.newSession = 0
    /\ (last.op \in {"connect", "get_session"} /\ keyspace # None /\ last.ks = keyspace) =>
          /\ last.ret # 0 /\ last.ret = session[keyspace]
          /\ last.hadSession # 0 => last.ret = last.hadSession /\ last.newSession = 0

\* C14 witness: after a re-bind, the property returned the Session that an
\* earlier call had cached for the default keyspace
C14_Witness ==
    /\ last.op = "session" /\ bindCount = 2 /\ keyspace = "ks1"
    /\ last.ret # 0 /\ last.ret = last.hadSession
    /\ Cardinality(DOMAIN session) = 2

\* C15: after every init_app the manager's node list is the one-element list
\* of the string when CASSANDRA_NODES was a string, the list itself when it
\* was a list, and the single entry "localhost" when the key was absent; the
\* port is the one given, 9042 when the key was absent.
C15_NodesNormalized ==
    last.op = "init_app" =>
        /\ (last.cfg.NODES.set /\ last.cfg.NODES.isStr) =>
              Len(nodes) = 1 /\ nodes[1] = last.cfg.NODES.str
        /\ (last.cfg.NODES.set /\ ~last.cfg.NODES.isStr) => nodes = last.cfg.NODES.list
        /\ ~last.cfg.NODES.set => nodes = <<"localhost">>
        /\ port = IF last.cfg.PORT.set THEN last.cfg.PORT.val ELSE 9042

\* C15 witness: a re-bind with a string, after a bind with a list
C15_Witness ==
    /\ last.op = "init_app" /\ bindCount = 2
    /\ last.cfg.NODES.isStr /\ nodes = <<"h1">>
    /\ \E i \in 1..Len(clusterObjs) : clusterObjs[i].nodes = <<"h1", "h2">>

\* C16: connect takes no lock between its tests and its writes.  A thread
\* that found no cluster handle stores the one it constructed whatever
\* self.cluster holds by then, and a thread that found the keyspace uncached
\* stores the Session it created whatever the cache holds for the keyspace by
\* then, replacing an entry another thread wrote in between; the test of
\* l.204 is not repeated before the write.
C16_UnprotectedLazyInit ==
    [][ \A t \in Threads :
          /\ (threads[t].pc = "l190s" /\ threads'[t].pc = "l196") =>
                cluster' = threads[t].newCluster
          /\ (threads[t].pc = "l209" /\ threads'[t].pc = "l211") =>
                /\ threads[t].ks \in DOMAIN session'
                /\ session'[threads[t].ks] = threads[t].newSession
          /\ (threads[t].pc = "l205" /\ app # None /\ threads'[t] # threads[t]) =>
                /\ threads'[t].pc = "l209"
                /\ Len(sessionObjs') = Len(sessionObjs) + 1
      ]_vars

\* C16 witness: both threads asked for the same keyspace, each constructed a
\* cluster handle and a Session, each was returned its own Session, and the
\* manager keeps one handle and one Session of the two
C16_Witness ==
    /\ threads["A"].pc = "done" /\ threads["B"].pc = "done"
    /\ threads["A"].ks = "ks1" /\ threads["B"].ks = "ks1"
    /\ threads["A"].newSession # 0 /\ threads["B"].newSession # 0
    /\ threads["A"].ret = threads["A"].newSession
    /\ threads["B"].ret = threads["B"].newSession
    /\ threads["A"].ret # threads["B"].ret
    /\ session["ks1"] = threads["B"].ret
    /\ threads["A"].newCluster # 0 /\ threads["B"].newCluster # 0
    /\ threads["A"].newCluster # threads["B"].newCluster
    /\ cluster \in {threads["A"].newCluster, threads["B"].newCluster}

\* C17: connect(k, level) changes no Session that existed before the call; a
\* Session it creates gets the level of the call, the driver's default when
\* no level was given; when k was cached, the cached Session is returned, no
\* Session is created and the level argument has no effect.
C17_LevelFirstWriterWins ==
    [][ (last'.op = "connect" /\ last'.err = None) =>
          /\ \A i \in 1..Len(sessionObjs) : sessionObjs'[i] = sessionObjs[i]
          /\ last'.newSession # 0 =>
                /\ last'.hadSession = 0
                /\ last'.ret = last'.newSession
                /\ sessionObjs'[last'.newSession].level =
                      IF Truthy(last'.level) THEN last'.level ELSE DriverLevel
          /\ last'.hadSession # 0 =>
                /\ last'.ret = last'.hadSession
                /\ sessionObjs' = sessionObjs
      ]_vars

\* C17 witness: a cache hit with a level, on a Session created with another
C17_Witness ==
    /\ last.op = "connect" /\ last.level = "QUORUM"
    /\ last.hadSession # 0 /\ last.ret = last.hadSession
    /\ sessionObjs[last.ret].level = "ONE"

\* C18: init_app calls shutdown once on the cluster handle attached to the
\* top application context, and on no other; with no context on the stack, or
\* none attached to the top context, it shuts nothing down.  In both cases it
\* registers teardown with the application once more, and leaves the
\* context's attribute as it was.
C18_BindShutsAttachedHandle ==
    [][ last'.op = "init_app" =>
          /\ clusterObjs' =
                IF Top # 0 /\ ctxSlot[Top] # 0
                THEN [clusterObjs EXCEPT ![ctxSlot[Top]].shutdowns = @ + 1]
                ELSE clusterObjs
          /\ teardownFuncs' = teardownFuncs + 1
          /\ UNCHANGED <<ctxStack, ctxSlot>>
      ]_vars

\* C18 witness: a bind inside a context whose attribute was set, the manager
\* holding a handle that is not the context's
C18_Witness ==
    /\ last.op = "init_app" /\ last.ctx # 0 /\ last.shut # 0
    /\ ctxSlot[last.ctx] = last.shut
    /\ clusterObjs[last.shut].shutdowns = 1
    /\ last.hadCluster # 0 /\ last.hadCluster # last.shut

\* C19: inside an application context, what connection returns is a cluster
\* handle that was not shut down, and it is self.cluster.
C19_ConnectionLiveAndCurrent ==
    (last.op = "connection" /\ last.ctx # 0 /\ last.err = None) =>
        /\ last.ret # 0
        /\ clusterObjs[last.ret].shutdowns = 0
        /\ last.ret = cluster

\* C20: shutdown is called at most once on every cluster handle.
C20_ShutdownAtMostOnce ==
    \A i \in 1..Len(clusterObjs) : clusterObjs[i].shutdowns <= 1

====
